---- MODULE Spec2Model ----
(***************************************************************************)
(* Training-environment callbacks of VSR/Framework/Callbacks.py.           *)
(*                                                                         *)
(* Every factory (lr_decay, reduce_residual, add_noise, add_random_noise,  *)
(* save_image, print_psnr) returns a closure, held in cb; the harness then *)
(* invokes the closure, and the outcome of the last call is held in call.  *)
(* The process-wide state the callbacks touch is the numpy global random   *)
(* generator (rng), the filesystem (dirs, files) and the console.          *)
(***************************************************************************)
EXTENDS Integers, Sequences, FiniteSets, TLC

VARIABLES cb, call, rng, seed, dirs, files, console

vars == <<cb, call, rng, seed, dirs, files, console>>

(***************************************************************************)
(* Bounds of the model.                                                    *)
(***************************************************************************)
MaxNum == 2
MaxDen == 2
MaxDecayStep == 2
MaxSteps == 3
MaxPower == 2

(***************************************************************************)
(* Python values.  None, and the closure slot before any factory ran.      *)
(***************************************************************************)
None == [t |-> "none"]
NoCb == [kind |-> "none"]
NoCall == [op |-> "none", status |-> "none"]

(***************************************************************************)
(* Numbers of the schedules are exact rationals <<n, d>>, d > 0, reduced.  *)
(***************************************************************************)
RECURSIVE GCD(_, _)
GCD(a, b) == IF b = 0 THEN a ELSE GCD(b, a % b)

Abs(a) == IF a < 0 THEN -a ELSE a

Rat(n, d) ==
    LET s == IF d < 0 THEN -1 ELSE 1
        g == GCD(Abs(n), Abs(d))
    IN  <<(s * n) \div g, (s * d) \div g>>

Zero == <<0, 1>>
One == <<1, 1>>
RatAdd(a, b) == Rat(a[1] * b[2] + b[1] * a[2], a[2] * b[2])
RatSub(a, b) == Rat(a[1] * b[2] - b[1] * a[2], a[2] * b[2])
RatMul(a, b) == Rat(a[1] * b[1], a[2] * b[2])

RECURSIVE RatPowInt(_, _)
RatPowInt(a, k) == IF k = 0 THEN One ELSE RatMul(a, RatPowInt(a, k - 1))

\* Python floor division a // b of integers, b # 0.
FloorDiv(a, b) == a \div b

(***************************************************************************)
(* A value c * b^e.  An integral exponent, or a base of 0 or 1, folds into *)
(* the coefficient; a fractional power of another base stays symbolic.     *)
(***************************************************************************)
Num(c) == [c |-> c, b |-> One, e |-> Zero]

\* base ** e for a base >= 0 and an exponent e >= 0 (a float power).
Pow(base, e) ==
    IF e[2] = 1 THEN Num(RatPowInt(base, e[1]))
    ELSE IF base = One THEN Num(One)
    ELSE IF base = Zero THEN Num(Zero)
    ELSE [c |-> One, b |-> base, e |-> e]

Scale(k, v) ==
    IF k = Zero THEN Num(Zero) ELSE [c |-> RatMul(k, v.c), b |-> v.b, e |-> v.e]

(***************************************************************************)
(* The three decay formulas.  Each takes the arguments of the Python       *)
(* function; lr and epochs are accepted and not used.                      *)
(***************************************************************************)
\* The exponential formula applied to the current rate instead of the
\* start rate.
ExponentialDecayOfCurrent(lr, start_lr, epochs, steps, decay_step, decay_rate) ==
    Scale(lr, Pow(decay_rate, Rat(steps, decay_step)))

_exponential_decay(lr, start_lr, epochs, steps, decay_step, decay_rate) ==
    Scale(start_lr, Pow(decay_rate, Rat(steps, decay_step)))

_poly_decay(lr, start_lr, end_lr, epochs, steps, decay_step, power) ==
    Num(RatAdd(RatMul(RatSub(start_lr, end_lr),
                      RatPowInt(RatSub(One, Rat(steps, decay_step)), power)),
               end_lr))

_stair_decay(lr, start_lr, epochs, steps, decay_step, decay_rate) ==
    Scale(start_lr, Num(RatPowInt(decay_rate, FloorDiv(steps, decay_step))))

(***************************************************************************)
(* Inputs of the schedules.                                                *)
(***************************************************************************)
Rats == {Rat(n, d) : n \in 0..MaxNum, d \in 1..MaxDen}
DecaySteps == (0..MaxDecayStep) \cup {10}
StepsSet == (0..MaxSteps) \cup {10}
Powers == 0..MaxPower
EndLrs == {Zero, Rat(1, MaxDen)}
\* The current learning rate the harness passes to a schedule.
CurrentLrs == {Rat(n, 1) : n \in 1..MaxNum}
Methods == {"exp", "poly", "stair", "cosine", ""}
KnownMethods == {"exp", "poly", "stair"}

\* Keyword arguments a caller passes on to lr_decay: those of the
\* exponential and staircase formulas, those of the polynomial one, and an
\* incomplete set.
DecayKwargs ==
    [decay_step : DecaySteps, decay_rate : Rats]
    \cup [end_lr : EndLrs, decay_step : DecaySteps, power : Powers]
    \cup [decay_step : DecaySteps]

\* functools.partial(fn, **kw): the function and the keywords it binds.
Partial(fn, kw) == [kind |-> "partial", fn |-> fn, kw |-> kw]

\* The keywords of one call of a partial: those of the call override the
\* bound ones.
Merge(callkw, bound) == callkw @@ bound

Params(fn) ==
    CASE fn = "_exponential_decay" ->
           {"lr", "start_lr", "epochs", "steps", "decay_step", "decay_rate"}
      [] fn = "_poly_decay" ->
           {"lr", "start_lr", "end_lr", "epochs", "steps", "decay_step", "power"}
      [] fn = "_stair_decay" ->
           {"lr", "start_lr", "epochs", "steps", "decay_step", "decay_rate"}

DecayFns == {"_exponential_decay", "_poly_decay", "_stair_decay"}

(***************************************************************************)
(* lr_decay(method, lr, **kwargs).  The harness configures its callback    *)
(* at setup time, once: a factory runs while no closure is held.           *)
(***************************************************************************)
\* A selection that falls back to the exponential formula.
SelectedWithFallback(method, lr, kwargs) ==
    IF method = "poly" THEN Partial("_poly_decay", ("start_lr" :> lr) @@ kwargs)
    ELSE IF method = "stair" THEN Partial("_stair_decay", ("start_lr" :> lr) @@ kwargs)
    ELSE Partial("_exponential_decay", ("start_lr" :> lr) @@ kwargs)

Selected(method, lr, kwargs) ==
    IF method = "exp" THEN Partial("_exponential_decay", ("start_lr" :> lr) @@ kwargs)
    ELSE IF method = "poly" THEN Partial("_poly_decay", ("start_lr" :> lr) @@ kwargs)
    ELSE IF method = "stair" THEN Partial("_stair_decay", ("start_lr" :> lr) @@ kwargs)
    ELSE NoCb

lr_decay(method, lr, kwargs) ==
    LET sel == Selected(method, lr, kwargs) IN
    /\ cb = NoCb
    /\ call' = [op |-> "lr_decay", method |-> method,
                status |-> IF sel = NoCb THEN "ValueError" ELSE "ok",
                returned |-> sel]
    /\ cb' = IF sel = NoCb THEN cb ELSE sel
    /\ UNCHANGED <<rng, seed, dirs, files, console>>

(***************************************************************************)
(* The harness evaluates the schedule it holds:                            *)
(* cb(lr=lr, epochs=epochs, steps=steps).                                  *)
(***************************************************************************)
Apply(fn, a) ==
    CASE fn = "_exponential_decay" ->
           _exponential_decay(a.lr, a.start_lr, a.epochs, a.steps,
                              a.decay_step, a.decay_rate)
      [] fn = "_poly_decay" ->
           _poly_decay(a.lr, a.start_lr, a.end_lr, a.epochs, a.steps,
                       a.decay_step, a.power)
      [] fn = "_stair_decay" ->
           _stair_decay(a.lr, a.start_lr, a.epochs, a.steps,
                        a.decay_step, a.decay_rate)

ScheduleStatus(fn, a) ==
    IF DOMAIN a # Params(fn) THEN "TypeError"
    ELSE IF a.decay_step = 0 THEN "ZeroDivisionError"
    ELSE "ok"

CallSchedule(lr, epochs, steps) ==
    /\ cb.kind = "partial"
    /\ cb.fn \in DecayFns
    /\ LET a == Merge([lr |-> lr, epochs |-> epochs, steps |-> steps], cb.kw)
           st == ScheduleStatus(cb.fn, a)
       IN  call' = [op |-> "schedule", fn |-> cb.fn, bound |-> cb.kw,
                    lr |-> lr, epochs |-> epochs, steps |-> steps,
                    status |-> st,
                    result |-> IF st = "ok" THEN Apply(cb.fn, a) ELSE None]
    /\ UNCHANGED <<cb, rng, seed, dirs, files, console>>

(***************************************************************************)
(* The state of a fresh process.                                           *)
(***************************************************************************)
Root == <<>>
NoFiles == <<>>

InitDecay ==
    /\ cb = NoCb
    /\ call = NoCall
    /\ rng = 0
    /\ seed = 0
    /\ dirs = {Root}
    /\ files = NoFiles
    /\ console = <<>>

NextDecay ==
    \/ \E method \in Methods, lr \in Rats, kwargs \in DecayKwargs :
          lr_decay(method, lr, kwargs)
    \/ \E lr \in CurrentLrs, epochs \in 0..1, steps \in StepsSet :
          CallSchedule(lr, epochs, steps)

SpecDecay == InitDecay /\ [][NextDecay]_vars

\* C1: lr_decay with a method name other than 'exp', 'poly', 'stair' fails
\* with ValueError and returns no callable; with each of the three names it
\* returns the partial of the formula of that name and raises nothing.
C1_Selection ==
    call.op = "lr_decay" =>
        /\ call.method \notin KnownMethods =>
              call.status = "ValueError" /\ call.returned = NoCb
        /\ call.method \in KnownMethods =>
              /\ call.status = "ok"
              /\ call.returned.kind = "partial"
              /\ call.returned = cb
              /\ call.method = "exp" => call.returned.fn = "_exponential_decay"
              /\ call.method = "poly" => call.returned.fn = "_poly_decay"
              /\ call.method = "stair" => call.returned.fn = "_stair_decay"

C1_Witness ==
    /\ call.op = "lr_decay"
    /\ call.method = "cosine"
    /\ call.status = "ValueError"
    /\ call.returned = NoCb

\* C2: the exponential schedule is start_lr at steps = 0 and
\* start_lr * decay_rate at steps = decay_step, for every positive
\* decay_step and whatever lr and epochs the call passes; it raises nothing.
C2_ExpEndpoints ==
    (/\ call.op = "schedule"
     /\ call.fn = "_exponential_decay"
     /\ DOMAIN call.bound = {"start_lr", "decay_step", "decay_rate"}
     /\ call.bound.decay_step > 0) =>
        /\ call.status = "ok"
        /\ call.steps = 0 => call.result = Num(call.bound.start_lr)
        /\ call.steps = call.bound.decay_step =>
              call.result = Num(RatMul(call.bound.start_lr, call.bound.decay_rate))

C2_Witness ==
    /\ call.op = "schedule"
    /\ call.fn = "_exponential_decay"
    /\ call.status = "ok"
    /\ call.bound = [start_lr |-> One, decay_step |-> 10, decay_rate |-> <<1, 2>>]
    /\ call.steps = 10
    /\ call.lr = <<2, 1>>
    /\ call.result = Num(<<1, 2>>)

(***************************************************************************)
(* Arrays.  An array is its shape, its dtype and its elements in row-major *)
(* order; a Python list is the sequence of its items.                      *)
(***************************************************************************)
MaxLen == 2
MaxListLen == 2

Arr(shape, dtype, data) ==
    [t |-> "arr", shape |-> shape, dtype |-> dtype, data |-> data]
List(items) == [t |-> "list", items |-> items]

RECURSIVE Product(_)
Product(shape) ==
    IF shape = <<>> THEN 1 ELSE Head(shape) * Product(Tail(shape))

Size(a) == Product(a.shape)

SeqsUpTo(S, lo, hi) == UNION {[1..n -> S] : n \in lo..hi}

\* One-dimensional integer arrays of 1..MaxLen elements.
Vectors ==
    {Arr(<<Len(d)>>, "int64", d) : d \in SeqsUpTo({0, 1}, 1, MaxLen)}

\* Lists of arrays: the empty list, and the lists of 1..MaxListLen items
\* whose item 0 is any vector and whose further items are a vector of ones.
Filler == Arr(<<1>>, "int64", <<1>>)

VectorLists ==
    {List(<<>>)}
    \cup {List(<<v>> \o [i \in 1..k |-> Filler]) :
              v \in Vectors, k \in 0..(MaxListLen - 1)}

\* An array of ones in place of the zeros.
OnesLike(a) == Arr(a.shape, a.dtype, [i \in 1..Len(a.data) |-> 1])

\* numpy.zeros_like(a)
ZerosLike(a) == Arr(a.shape, a.dtype, [i \in 1..Len(a.data) |-> 0])

\* bool(v), as the operator `or` evaluates it: None is false, a list is true
\* when it has items, an array of one element is true when the element is
\* not zero; an array of more elements has no truth value (ValueError).
TruthRaises(v) == v.t = "arr" /\ Size(v) > 1

Truth(v) ==
    CASE v.t = "none" -> FALSE
      [] v.t = "list" -> Len(v.items) > 0
      [] v.t = "arr" -> v.data[1] # 0

\* Broadcasting of two one-dimensional arrays: equal lengths, or one of
\* them of a single element.
Broadcasts(a, b) ==
    \/ Len(a.data) = Len(b.data)
    \/ Len(a.data) = 1
    \/ Len(b.data) = 1

At(a, i) == IF Len(a.data) = 1 THEN a.data[1] ELSE a.data[i]

Longer(a, b) == IF Len(a.data) >= Len(b.data) THEN a ELSE b

\* a - b, elementwise
Sub(a, b) ==
    LET n == Len(Longer(a, b).data)
    IN  Arr(<<n>>, a.dtype, [i \in 1..n |-> At(a, i) - At(b, i)])

\* kwargs.get(k)
Get(kwargs, k) == IF k \in DOMAIN kwargs THEN kwargs[k] ELSE None

NoKw == <<>>

(***************************************************************************)
(* _sub_residual(kwargs): the outcome, <<status, result>>.               *)
(***************************************************************************)
_sub_residual(kwargs) ==
    LET img == Get(kwargs, "input")
        out == Get(kwargs, "output")
    IN  IF TruthRaises(out) THEN <<"ValueError", None>>
        ELSE IF img = None THEN <<"TypeError", None>>
        ELSE LET res0 == IF Truth(out) THEN out ELSE ZerosLike(img)
                 res == IF res0.t = "list" THEN res0.items[1] ELSE res0
             IN  IF Broadcasts(img, res)
                 THEN <<"ok", Sub(img, res)>>
                 ELSE <<"ValueError", None>>

\* reduce_residual(kwargs)
reduce_residual(kwargs) ==
    /\ cb = NoCb
    /\ cb' = Partial("_sub_residual", kwargs)
    /\ call' = [op |-> "reduce_residual", status |-> "ok", returned |-> cb']
    /\ UNCHANGED <<rng, seed, dirs, files, console>>

\* The harness invokes the closure: cb(kwargs).
CallResidual(kwargs) ==
    /\ cb.kind = "partial"
    /\ cb.fn = "_sub_residual"
    /\ LET a == Merge(kwargs, cb.kw)
           r == _sub_residual(a)
       IN  call' = [op |-> "residual", input |-> Get(a, "input"),
                    output |-> Get(a, "output"),
                    status |-> r[1], result |-> r[2]]
    /\ UNCHANGED <<cb, rng, seed, dirs, files, console>>

BoundResidualKw ==
    {NoKw} \cup [output : {None}]
    \cup [input : {v \in Vectors : Len(v.data) = 1}, output : {None}]

CallResidualKw ==
    {NoKw}
    \cup [input : Vectors \cup {None}]
    \cup [input : Vectors \cup {None},
          output : {None} \cup Vectors \cup VectorLists]

InitResidual == InitDecay

NextResidual ==
    \/ \E kwargs \in BoundResidualKw : reduce_residual(kwargs)
    \/ \E kwargs \in CallResidualKw : CallResidual(kwargs)

SpecResidual == InitResidual /\ [][NextResidual]_vars

\* C3: with the output absent or None, the residual callback returns its
\* input array, element for element, and raises nothing.
C3_NoneOutputIsIdentity ==
    (call.op = "residual" /\ call.input.t = "arr" /\ call.output = None) =>
        call.status = "ok" /\ call.result = call.input

C3_Witness ==
    /\ call.op = "residual"
    /\ call.output = None
    /\ call.input.t = "arr"
    /\ call.input.data = <<1, 1>>
    /\ call.result.data = <<1, 1>>

\* The output the residual is taken from: item 0 of a list, the array itself.
Chosen(out) == IF out.t = "list" THEN out.items[1] ELSE out

SameShaped(out, img) ==
    \/ out.t = "arr" /\ out.shape = img.shape
    \/ out.t = "list" /\ Len(out.items) > 0 /\ out.items[1].shape = img.shape

\* C4: for every input array and every output that is an array of the
\* input's shape, or a list whose item 0 is one, the residual callback
\* completes and returns input - output elementwise.
C4_ResidualOfGivenOutput ==
    (call.op = "residual" /\ call.input.t = "arr"
        /\ SameShaped(call.output, call.input)) =>
        /\ call.status = "ok"
        /\ call.result = Sub(call.input, Chosen(call.output))

(***************************************************************************)
(* numpy.random: one generator for the whole process.  Its state is rng;   *)
(* every draw reads the state and advances it.  The process starts from a  *)
(* seed taken from the operating system.                                   *)
(***************************************************************************)
RngMod == 8
MaxSeed == 1
MaxZ == 1

Advance(s) == (5 * s + 3) % RngMod

\* A standard normal deviate, to the nearest integer, from a state.
Deviate(s) == (s % (2 * MaxZ + 1)) - MaxZ

\* The n states the generator passes through from s.
RECURSIVE States(_, _)
States(s, n) ==
    IF n = 0 THEN <<>> ELSE <<Advance(s)>> \o States(Advance(s), n - 1)

\* Samples of unit deviation, whatever the scale.
NormalOfUnitScale(loc, scale, n, s) ==
    LET st == States(s, n)
    IN  [samples |-> [i \in 1..n |-> loc + Deviate(st[i])],
         rng |-> IF n = 0 THEN s ELSE st[n]]

\* numpy.random.normal(loc, scale, n), scale >= 0: the samples and the
\* state left behind.
Normal(loc, scale, n, s) ==
    LET st == States(s, n)
    IN  [samples |-> [i \in 1..n |-> loc + scale * Deviate(st[i])],
         rng |-> IF n = 0 THEN s ELSE st[n]]

\* numpy.random.randint(k), k > 0
RandInt(k, s) == [value |-> Advance(s) % k, rng |-> Advance(s)]

\* numpy.clip(x, 0, 255) of one element
Clip(x) == IF x < 0 THEN 0 ELSE IF x > 255 THEN 255 ELSE x

\* A range that includes its upper end.
RECURSIVE RangeInclusive(_, _, _)
RangeInclusive(low, high, step) ==
    IF low > high THEN <<>> ELSE <<low>> \o RangeInclusive(low + step, high, step)

\* list(range(low, high, step)), step > 0
RECURSIVE Range(_, _, _)
Range(low, high, step) ==
    IF low >= high THEN <<>> ELSE <<low>> \o Range(low + step, high, step)

(***************************************************************************)
(* _add_noise(feature, stddev, mean, clip) from generator state s.         *)
(***************************************************************************)
_add_noise(feature, stddev, mean, clip, s) ==
    IF stddev < 0
    THEN [status |-> "ValueError", result |-> None, rng |-> s, stddev |-> stddev]
    ELSE LET n == Len(feature.data)
             noise == Normal(mean, stddev, n, s)
             x == [i \in 1..n |-> feature.data[i] + noise.samples[i]]
         IN  [status |-> "ok",
              result |-> Arr(feature.shape, "float64",
                             IF clip THEN [i \in 1..n |-> Clip(x[i])] ELSE x),
              rng |-> noise.rng,
              stddev |-> stddev]

(***************************************************************************)
(* _add_random_noise(feature, low, high, step, mean, clip) from state s.   *)
(***************************************************************************)
_add_random_noise(feature, low, high, step, mean, clip, s) ==
    IF step = 0
    THEN [status |-> "ValueError", result |-> None, rng |-> s, stddev |-> 0]
    ELSE LET n == Range(low, high, step) IN
         IF Len(n) = 0
         THEN [status |-> "ValueError", result |-> None, rng |-> s, stddev |-> 0]
         ELSE LET i == RandInt(Len(n), s)
                  stddev == n[i.value + 1]
              IN  _add_noise(feature, stddev, mean, clip, i.rng)

\* add_noise(sigma, mean=0, clip=False)
add_noise(sigma, mean, clip) ==
    /\ cb = NoCb
    /\ cb' = Partial("_add_noise", [stddev |-> sigma, mean |-> mean, clip |-> clip])
    /\ call' = [op |-> "add_noise", status |-> "ok", returned |-> cb']
    /\ UNCHANGED <<rng, seed, dirs, files, console>>

\* add_random_noise(low, high, step=1, mean=0, clip=False)
add_random_noise(low, high, step, mean, clip) ==
    /\ cb = NoCb
    /\ cb' = Partial("_add_random_noise",
                     [low |-> low, high |-> high, step |-> step,
                      mean |-> mean, clip |-> clip])
    /\ call' = [op |-> "add_random_noise", status |-> "ok", returned |-> cb']
    /\ UNCHANGED <<rng, seed, dirs, files, console>>

\* What the closure c yields for a feature when the generator is in state s.
NoiseOutcome(c, feature, s) ==
    IF c.fn = "_add_noise"
    THEN _add_noise(feature, c.kw.stddev, c.kw.mean, c.kw.clip, s)
    ELSE _add_random_noise(feature, c.kw.low, c.kw.high, c.kw.step,
                           c.kw.mean, c.kw.clip, s)

NoiseFns == {"_add_noise", "_add_random_noise"}

\* An invocation that stores the deviation it used in the bound keywords.
CallNoiseStoringStddev(feature) ==
    /\ cb.kind = "partial"
    /\ cb.fn \in {"_add_noise", "_add_random_noise"}
    /\ LET r == IF cb.fn = "_add_noise"
                THEN _add_noise(feature, cb.kw.stddev, cb.kw.mean, cb.kw.clip, rng)
                ELSE _add_random_noise(feature, cb.kw.low, cb.kw.high,
                                       cb.kw.step, cb.kw.mean, cb.kw.clip, rng)
       IN  /\ call' = [op |-> "noise", fn |-> cb.fn, feature |-> feature,
                       stddev |-> r.stddev, status |-> r.status,
                       result |-> r.result]
           /\ rng' = r.rng
           /\ cb' = [cb EXCEPT !.kw = ("stddev" :> r.stddev) @@ cb.kw]
    /\ UNCHANGED <<seed, dirs, files, console>>

\* The harness invokes the closure: cb(feature).
CallNoise(feature) ==
    /\ cb.kind = "partial"
    /\ cb.fn \in NoiseFns
    /\ LET r == NoiseOutcome(cb, feature, rng)
       IN  /\ call' = [op |-> "noise", fn |-> cb.fn, feature |-> feature,
                       stddev |-> r.stddev, status |-> r.status,
                       result |-> r.result]
           /\ rng' = r.rng
    /\ UNCHANGED <<cb, seed, dirs, files, console>>

MaxSigma == 2
MaxHigh == 3
MaxStride == 2

Features ==
    {Arr(<<Len(d)>>, "uint8", d) : d \in SeqsUpTo({0, 255}, 1, MaxLen)}
Means == {0, 1}

InitNoise ==
    /\ cb = NoCb
    /\ call = NoCall
    /\ seed \in 0..MaxSeed
    /\ rng = seed
    /\ dirs = {Root}
    /\ files = NoFiles
    /\ console = <<>>

NextNoise ==
    \/ \E sigma \in (-1)..MaxSigma, mean \in Means, clip \in BOOLEAN :
          add_noise(sigma, mean, clip)
    \/ \E low \in (-1)..1, high \in 0..MaxHigh, step \in 0..MaxStride,
          mean \in Means, clip \in BOOLEAN :
          add_random_noise(low, high, step, mean, clip)
    \/ \E feature \in Features : CallNoise(feature)

SpecNoise == InitNoise /\ [][NextNoise]_vars

\* C5 as stated: with stddev = 0 and clip = False the noise callback
\* returns its input, element for element, whatever mean is bound.
C5_ZeroSigmaIsIdentity ==
    (call.op = "noise" /\ call.fn = "_add_noise"
        /\ cb.kw.stddev = 0 /\ ~cb.kw.clip) =>
        call.status = "ok" /\ call.result.data = call.feature.data

\* C5, amended: with stddev = 0 and clip = False the noise callback returns,
\* as float, the input with the bound mean added to every element; it is
\* the input unchanged when the mean is 0.
C5_ZeroSigmaAddsMean ==
    (call.op = "noise" /\ call.fn = "_add_noise"
        /\ cb.kw.stddev = 0 /\ ~cb.kw.clip) =>
        /\ call.status = "ok"
        /\ call.result.dtype = "float64"
        /\ call.result.shape = call.feature.shape
        /\ \A i \in 1..Len(call.feature.data) :
              call.result.data[i] = call.feature.data[i] + cb.kw.mean
        /\ cb.kw.mean = 0 => call.result.data = call.feature.data

C5_Witness ==
    /\ call.op = "noise"
    /\ call.fn = "_add_noise"
    /\ cb.kw = [stddev |-> 0, mean |-> 0, clip |-> FALSE]
    /\ call.feature.data = <<255, 0>>
    /\ call.result.data = <<255, 0>>
    /\ rng # seed

InRange(low, high, step, x) ==
    \E k \in 0..(high - low) : x = low + k * step /\ x < high

\* C10 as stated: for every configuration with low < high and step >= 1 the
\* random-noise callback completes; the standard deviation it uses is a
\* member of {low, low+step, ...} strictly below high; with clip=True every
\* element of the result lies in [0, 255].
C10_RandomNoise ==
    (call.op = "noise" /\ call.fn = "_add_random_noise"
        /\ cb.kw.low < cb.kw.high /\ cb.kw.step >= 1) =>
        /\ call.status = "ok"
        /\ InRange(cb.kw.low, cb.kw.high, cb.kw.step, call.stddev)
        /\ cb.kw.clip =>
              \A i \in 1..Len(call.result.data) :
                  call.result.data[i] >= 0 /\ call.result.data[i] <= 255

\* C10, amended: the same, for every configuration with 0 <= low < high
\* and step >= 1.
C10_RandomNoiseNonNegative ==
    (call.op = "noise" /\ call.fn = "_add_random_noise"
        /\ 0 <= cb.kw.low /\ cb.kw.low < cb.kw.high /\ cb.kw.step >= 1) =>
        /\ call.status = "ok"
        /\ InRange(cb.kw.low, cb.kw.high, cb.kw.step, call.stddev)
        /\ call.stddev # cb.kw.high
        /\ call.result.shape = call.feature.shape
        /\ cb.kw.clip =>
              \A i \in 1..Len(call.result.data) :
                  call.result.data[i] >= 0 /\ call.result.data[i] <= 255

\* The last member of range(0, 3, 2) is chosen, the noise leaves [0, 255]
\* and is clipped.
C10_Witness ==
    /\ call.op = "noise"
    /\ call.fn = "_add_random_noise"
    /\ cb.kw.low = 0 /\ cb.kw.high = 3 /\ cb.kw.step = 2 /\ cb.kw.clip
    /\ call.stddev = 2
    /\ call.status = "ok"
    /\ call.feature.data = <<255, 0>>
    /\ call.result.data = <<255, 0>>

MaxDim == 2
MaxPixels == 2
MaxPrints == 1

Shapes(n) == {sh \in [1..n -> 1..MaxDim] : Product(sh) <= MaxPixels}

ImageShapes == Shapes(3) \cup Shapes(4)

Images ==
    {a \in {Arr(sh, "float32", d) :
               sh \in ImageShapes, d \in SeqsUpTo({0, 255}, 1, MaxPixels)} :
        Len(a.data) = Product(a.shape)}

NDim(a) == Len(a.shape)

\* a[0]: the first item along the leading axis.
First(a) ==
    Arr(Tail(a.shape), a.dtype, SubSeq(a.data, 1, Product(Tail(a.shape))))

RECURSIVE SumSq(_, _)
SumSq(x, y) ==
    IF x = <<>> THEN 0
    ELSE (Head(x) - Head(y)) * (Head(x) - Head(y)) + SumSq(Tail(x), Tail(y))

\* numpy.mean(numpy.square(a - b)) of two arrays of one shape
Mse(a, b) == Rat(SumSq(a.data, b.data), Len(a.data))

\* 20 * log10(255 / sqrt(mse)): a division by the float zero yields inf
\* (with a warning, not an exception) and log10(inf) is inf; the value for
\* a positive mse is kept as the mse it is computed from.
Inf == [t |-> "inf"]
Psnr(mse) == IF mse = Zero THEN Inf ELSE [t |-> "dB", mse |-> mse]

PsnrLine(psnr) == [text |-> "PSNR = {psnr:.2f}dB", psnr |-> psnr]

(***************************************************************************)
(* _eval_psnr(output, label) of two arrays: the status and the lines it    *)
(* prints.                                                                 *)
(***************************************************************************)
_eval_psnr(output, label) ==
    LET lab == IF NDim(label) = 4 THEN First(label) ELSE label
    IN  IF output.shape # lab.shape
        THEN [status |-> "AssertionError", printed |-> <<>>]
        ELSE [status |-> "ok",
              printed |-> <<PsnrLine(Psnr(Mse(output, lab)))>>]

\* print_psnr()
print_psnr ==
    /\ cb = NoCb
    /\ cb' = [kind |-> "function", fn |-> "_eval_psnr"]
    /\ call' = [op |-> "print_psnr", status |-> "ok", returned |-> cb']
    /\ UNCHANGED <<rng, seed, dirs, files, console>>

\* The harness invokes the metric: cb(output=output, label=label).
CallPsnr(output, label) ==
    /\ cb.kind = "function"
    /\ cb.fn = "_eval_psnr"
    /\ Len(console) < MaxPrints
    /\ LET r == _eval_psnr(output, label)
       IN  /\ call' = [op |-> "psnr", output |-> output, label |-> label,
                       status |-> r.status, printed |-> r.printed]
           /\ console' = console \o r.printed
    /\ UNCHANGED <<cb, rng, seed, dirs, files>>

InitPsnr == InitDecay

NextPsnr ==
    \/ print_psnr
    \/ \E output \in Images, label \in Images : CallPsnr(output, label)

SpecPsnr == InitPsnr /\ [][NextPsnr]_vars

\* A shape with its leading batch dimension of size 1 removed.
Squeezed(shape) ==
    IF Len(shape) = 4 /\ shape[1] = 1 THEN Tail(shape) ELSE shape

\* C6: print_psnr squeezes the singleton batch dimension of both output and
\* label and fails by assertion exactly when the squeezed shapes differ; an
\* accepted pair prints a PSNR line, a rejected one prints nothing.
C6_BothShapesNormalized ==
    call.op = "psnr" =>
        /\ call.status = "AssertionError" <=>
              Squeezed(call.output.shape) # Squeezed(call.label.shape)
        /\ call.status = "ok" => Len(call.printed) = 1
        /\ call.status = "AssertionError" => call.printed = <<>>

\* C7: print_psnr on identical output and label arrays raises nothing and
\* prints one PSNR line, whose value is infinite.
C7_IdenticalPrintsInf ==
    (call.op = "psnr" /\ call.output = call.label) =>
        /\ call.status = "ok"
        /\ call.printed = <<PsnrLine(Inf)>>
        /\ console = <<PsnrLine(Inf)>>

(***************************************************************************)
(* save_image.  A path is the sequence of its components; the filesystem   *)
(* is the set of directories and the contents of the regular files.        *)
(***************************************************************************)
MaxIndex == 1

Str(parts) == [t |-> "str", parts |-> parts]

\* '{name}_PR.png' of the last component of a name
WithSuffix(stem) ==
    CASE stem = "img" -> "img_PR.png"
      [] stem = "None" -> "None_PR.png"

Front(q) == SubSeq(q, 1, Len(q) - 1)
Last(q) == q[Len(q)]

\* Path(f'{save_dir}/{name}_PR.png'): save_dir is a string, name a string
\* or None (formatted as 'None'); '.' is the working directory.
PathOf(save_dir, name) ==
    LET stem == IF name = None THEN <<"None">> ELSE name.parts
    IN  save_dir.parts \o Front(stem) \o <<WithSuffix(Last(stem))>>

Prefixes(q) == {SubSeq(q, 1, k) : k \in 0..Len(q)}

\* mkdir(parents=True) without exist_ok: a directory in place is an error.
MkdirNotExistOk(parent, d, f) ==
    IF parent \in d \/ parent \in DOMAIN f
    THEN [status |-> "FileExistsError", dirs |-> d]
    ELSE IF \E q \in Prefixes(parent) : q \in DOMAIN f
    THEN [status |-> "NotADirectoryError", dirs |-> d]
    ELSE [status |-> "ok", dirs |-> d \cup Prefixes(parent)]

\* path.parent.mkdir(parents=True, exist_ok=True): fails when a component
\* of the directory is a regular file, else leaves the directory and all
\* its ancestors in place.
Mkdir(parent, d, f) ==
    IF \E q \in Prefixes(parent) : q \in DOMAIN f
    THEN [status |-> IF parent \in DOMAIN f THEN "FileExistsError"
                     ELSE "NotADirectoryError",
          dirs |-> d]
    ELSE [status |-> "ok", dirs |-> d \cup Prefixes(parent)]

\* One try of numpy.squeeze(img, i) in the loop of _to_normalized_image:
\* an axis that is not of length 1, or is out of bounds, raises ValueError,
\* which the loop swallows.
SqueezeAxis(shape, i) ==
    IF i < Len(shape) /\ shape[i + 1] = 1
    THEN SubSeq(shape, 1, i) \o SubSeq(shape, i + 2, Len(shape))
    ELSE shape

\* for i in range(n): squeeze axis i of what the earlier tries left
RECURSIVE SqueezeLoop(_, _, _)
SqueezeLoop(shape, i, n) ==
    IF i >= n THEN shape ELSE SqueezeLoop(SqueezeAxis(shape, i), i + 1, n)

RECURSIVE Max(_)
Max(d) ==
    IF Len(d) = 1 THEN d[1]
    ELSE IF Head(d) >= Max(Tail(d)) THEN Head(d) ELSE Max(Tail(d))

\* array_to_img(img, mode)
array_to_img(img, mode) ==
    [t |-> "image", mode |-> mode, shape |-> img.shape, data |-> img.data]

(***************************************************************************)
(* _to_normalized_image(img)                                               *)
(***************************************************************************)
_to_normalized_image(img) ==
    LET shape == SqueezeLoop(img.shape, 0, Len(img.shape))
        scaled == IF img.dtype = "float32" /\ Max(img.data) <= 1
                  THEN [i \in 1..Len(img.data) |-> img.data[i] * 255]
                  ELSE img.data
        clipped == Arr(shape, img.dtype,
                       [i \in 1..Len(scaled) |-> Clip(scaled[i])])
    IN  IF Len(shape) = 2
        THEN [status |-> "ok", image |-> array_to_img(clipped, "L")]
        ELSE IF Len(shape) = 3
        THEN [status |-> "ok", image |-> array_to_img(clipped, "YCbCr")]
        ELSE [status |-> "ValueError", image |-> None]

\* img.convert('RGB').save(path): the PNG written for an image
Png(image) == [t |-> "png", of |-> image]

(***************************************************************************)
(* _save_model_predicted_images(output, index, kwargs) on the filesystem   *)
(* <<d, f>>.                                                               *)
(***************************************************************************)
_save_model_predicted_images(output, index, kwargs, d, f) ==
    LET sd == Get(kwargs, "save_dir")
        save_dir == IF sd = None THEN Str(<<>>) ELSE sd
        name == Get(kwargs, "name")
        path == PathOf(save_dir, name)
        fail(st, dd) == [status |-> st, ret |-> None, path |-> path,
                         dirs |-> dd, files |-> f]
    IN  IF output = None
        THEN [status |-> "ok", ret |-> output, path |-> path,
              dirs |-> d, files |-> f]
        ELSE IF output.t = "list" /\ index >= Len(output.items)
        THEN fail("IndexError", d)
        ELSE LET img == IF output.t = "list" THEN output.items[index + 1]
                        ELSE output
                 norm == _to_normalized_image(img)
                 made == Mkdir(Front(path), d, f)
             IN  IF norm.status # "ok" THEN fail(norm.status, d)
                 ELSE IF made.status # "ok" THEN fail(made.status, d)
                 ELSE IF path \in made.dirs
                 THEN fail("IsADirectoryError", made.dirs)
                 ELSE [status |-> "ok", ret |-> output, path |-> path,
                       dirs |-> made.dirs,
                       files |-> (path :> Png(norm.image)) @@ f]

\* save_image(save_dir='.', output_index=0)
save_image(save_dir, output_index) ==
    /\ cb = NoCb
    /\ cb' = Partial("_save_model_predicted_images",
                     [save_dir |-> save_dir, index |-> output_index])
    /\ call' = [op |-> "save_image", status |-> "ok", returned |-> cb']
    /\ UNCHANGED <<rng, seed, dirs, files, console>>

\* The harness invokes the closure: cb(output, name=name), or cb(output).
CallSave(output, kwargs) ==
    /\ cb.kind = "partial"
    /\ cb.fn = "_save_model_predicted_images"
    /\ LET a == Merge(kwargs, cb.kw)
           r == _save_model_predicted_images(output, a.index, a, dirs, files)
       IN  /\ call' = [op |-> "save", output |-> output,
                       path |-> r.path,
                       status |-> r.status, ret |-> r.ret]
           /\ dirs' = r.dirs
           /\ files' = r.files
    /\ UNCHANGED <<cb, rng, seed, console>>

\* The images handed to save_image: every element of an image is fill.
Filled(shape, dtype, fill) ==
    Arr(shape, dtype, [i \in 1..Product(shape) |-> fill])

SaveShapes ==
    {<<2>>, <<2, 2>>, <<2, 2, 1>>, <<1, 2, 2, 1>>, <<1, 1, 2, 2>>}

SaveArrays ==
    {Filled(sh, dt, v) : sh \in SaveShapes, dt \in {"float32", "uint8"},
                         v \in {1, 300}}

SaveLists ==
    {List(<<>>)}
    \cup {List(<<Filled(sh, "uint8", 300)>>) : sh \in {<<2>>, <<2, 2>>}}
    \cup {List(<<Filled(<<2, 2>>, "uint8", 1), Filled(sh, "uint8", 300)>>) :
             sh \in {<<2, 2, 1>>, <<2>>}}

SaveOutputs == {None} \cup SaveArrays \cup SaveLists

SaveDirs == {None, Str(<<"out">>), Str(<<"out", "run">>)}

SaveCallKw == {NoKw} \cup [name : {Str(<<"set", "img">>)}]

OldPng == Png(array_to_img(Filled(<<2, 2>>, "uint8", 0), "L"))

\* The filesystem the process finds: an empty working directory; the
\* save directory in place; an earlier image in place; a regular file where
\* the save directory is to be; a directory where the image is to be.
InitialFilesystems ==
    {[dirs |-> {Root}, files |-> NoFiles],
     [dirs |-> {Root, <<"out">>}, files |-> NoFiles],
     [dirs |-> {Root, <<"out">>},
      files |-> (<<"out", "None_PR.png">> :> OldPng)],
     [dirs |-> {Root}, files |-> (<<"out">> :> OldPng)],
     [dirs |-> {Root, <<"out">>, <<"out", "None_PR.png">>}, files |-> NoFiles]}

InitSave ==
    /\ cb = NoCb
    /\ call = NoCall
    /\ rng = 0
    /\ seed = 0
    /\ \E fs \in InitialFilesystems : dirs = fs.dirs /\ files = fs.files
    /\ console = <<>>

NextSave ==
    \/ \E save_dir \in SaveDirs, output_index \in 0..MaxIndex :
          save_image(save_dir, output_index)
    \/ \E output \in SaveOutputs, kwargs \in SaveCallKw :
          CallSave(output, kwargs)

SpecSave == InitSave /\ [][NextSave]_vars

\* The image save_image writes for an output: item index of a list, the
\* output itself otherwise.
Picked(output, index) ==
    IF output.t = "list" THEN output.items[index + 1] ELSE output

\* An output save_image can write: an array, or a list with an item at the
\* index, that normalizes to a 2-D or 3-D image.
Writable(output, index) ==
    /\ output # None
    /\ output.t = "list" => index < Len(output.items)
    /\ Len(SqueezeLoop(Picked(output, index).shape, 0,
                       Len(Picked(output, index).shape))) \in {2, 3}

\* C8: a save_image call that returns has, for an output that is not None,
\* left the file save_dir/name_PR.png and all its parent directories in
\* place, the file holding the image of output[index] for a list and of the
\* output otherwise; for None it has left the filesystem as it was; it
\* returns the output it was given.  Directories already in place are not
\* an error: the call returns whenever the output is writable, no component
\* of the directory is a regular file and the path is not a directory.
C8_FileAndParentsExist ==
    [][call'.op = "save" =>
          /\ call'.status = "ok" =>
                /\ call'.ret = call'.output
                /\ call'.output = None => dirs' = dirs /\ files' = files
                /\ call'.output # None =>
                      /\ call'.path \in DOMAIN files'
                      /\ Prefixes(Front(call'.path)) \subseteq dirs'
                      /\ dirs \subseteq dirs'
                      /\ files'[call'.path] =
                            Png(_to_normalized_image(
                                   Picked(call'.output, cb.kw.index)).image)
          /\ (/\ Writable(call'.output, cb.kw.index)
              /\ Prefixes(Front(call'.path)) \cap DOMAIN files = {}
              /\ call'.path \notin dirs) => call'.status = "ok"]_vars

\* A list's item 1 has been written under directories that were not there.
C8_Witness ==
    /\ call.op = "save"
    /\ call.status = "ok"
    /\ cb.kw.index = 1
    /\ call.output.t = "list"
    /\ call.path = <<"out", "run", "set", "img_PR.png">>
    /\ call.path \in DOMAIN files
    /\ <<"out", "run", "set">> \in dirs
    /\ files[call.path].of.mode = "L"

====
